---- MODULE Spec2Model ----
(***************************************************************************)
(* Model of frontend/src/services/ttsService.ts: the module-scoped        *)
(* cache / prefetch / playback pipeline of the text-to-speech service.    *)
(*                                                                         *)
(* The program is single threaded.  Every exported function, every fetch  *)
(* settlement (the promise callbacks it runs), every timer and every      *)
(* media / speech event handler runs to completion, so each is one        *)
(* action.  The helpers of the service (_cleanup, _playBlobUrl,           *)
(* _speakBrowser, _cacheStore, prefetchSpeech) are operators on a record  *)
(* of the module's variables; an action installs the record its handler   *)
(* computes.                                                               *)
(*                                                                         *)
(* Identities.  A speak() call is identified by the value of _speakGen it *)
(* captures (gen); the Audio element or utterance it creates, and its     *)
(* onEnd / onError closures, carry that identity.  A fetch request is     *)
(* identified by its index in `requests`; the blob URL a successful       *)
(* request creates (URL.createObjectURL) carries the request's index.     *)
(*                                                                         *)
(* Browser behaviour the service relies on (not in the repository):       *)
(*  - audio.pause() on an element whose play() promise is still pending   *)
(*    rejects that promise (AbortError); the rejection handler runs       *)
(*    later.  A playing element that is paused and unloaded emits neither *)
(*    ended nor error.                                                     *)
(*  - speechSynthesis.cancel() ends every queued / speaking utterance;    *)
(*    the utterance then receives its terminal event (error with          *)
(*    "interrupted"/"canceled", or end, depending on the browser).        *)
(*  - an aborted fetch rejects with AbortError.                            *)
(***************************************************************************)
EXTENDS Integers, Sequences, FiniteSets, TLC

(***************************************************************************)
(* Bounds of the model.                                                    *)
(***************************************************************************)
\* Capacity of the cache.  The source sets 30 (ttsService.ts:39); the model
\* scales it down so that eviction happens within the explored runs.
MAX_PREFETCH == 1
\* Number of speak() / cancelSpeech() calls explored (cap on _speakGen).
MaxGen == 3
\* Number of network requests explored.
MaxReq == 2
\* Longest narration list handed to prefetchAllScenes.
MaxScenes == 2
\* Most staggered timers pending at once.
MaxTimers == 1
\* Number of authFetch calls explored.
MaxCalls == 2
\* Number of runtime errors reported to App, and of messages sent.
MaxErrors == 3
MaxSends == 1
\* Length of an error signature.  The source takes 200 characters
\* (App.tsx:115); the model scales it down to errors of up to three.
SigLen == 2
\* The clock advances in steps of TickMs, MaxTicks times.
TickMs == 10000
MaxTicks == 2

PREFETCH_STAGGER_MS == 150

(***************************************************************************)
(* Texts.  A text is a sequence of characters; character 0 is white       *)
(* space, i >= 1 are distinct visible characters.                         *)
(***************************************************************************)
WS == 0
NumTexts == MAX_PREFETCH + 1
Texts == {<<i>> : i \in 1..NumTexts}
RawTexts == Texts \cup {<< >>, <<WS>>, <<WS, 1, WS>>}

RECURSIVE trimStart(_)
trimStart(s) ==
    IF s = << >> THEN << >>
    ELSE IF Head(s) = WS THEN trimStart(Tail(s)) ELSE s

RECURSIVE trimEnd(_)
trimEnd(s) ==
    IF s = << >> THEN << >>
    ELSE IF s[Len(s)] = WS THEN trimEnd(SubSeq(s, 1, Len(s) - 1)) ELSE s

\* String.prototype.trim
trim(s) == trimEnd(trimStart(s))

(***************************************************************************)
(* State.                                                                  *)
(***************************************************************************)
VARIABLES
    speakGen,                 \* _speakGen
    abortController,          \* _abortController: request it aborts, 0 = null
    currentAudio,             \* _currentAudio: gen of the element, 0 = null
    currentBlobUrl,           \* _currentBlobUrl: url, 0 = null
    currentUtterance,         \* _currentUtterance: gen of the utterance, 0 = null
    prefetchCache,            \* _prefetchCache: Map in insertion order
    prefetchBlobUrls,         \* _prefetchBlobUrls
    pendingPrefetches,        \* _pendingPrefetches: text -> request (its promise)
    prefetchAbortControllers, \* _prefetchAbortControllers: text -> request
    requests,                 \* every fetch() issued, by index
    waiters,                  \* speak() calls awaiting a pending prefetch
    timers,                   \* setTimeout callbacks not yet run
    audios,                   \* Audio elements, by the gen of their speak()
    utterances,               \* SpeechSynthesisUtterances, by gen
    revoked,                  \* urls given to URL.revokeObjectURL
    onEndCalls,               \* invocations of each call's onEnd
    onErrorCalls,             \* invocations of each call's onError
    lastCallback,             \* which of the call's two callbacks ran last
    authCalls,                \* useAuthenticatedFetch: the authFetch calls
    app                       \* App: isLoading, fixGuardRef, clock, output

\* The variables of ttsService.ts.
ttsVars == <<speakGen, abortController, currentAudio, currentBlobUrl,
             currentUtterance, prefetchCache, prefetchBlobUrls,
             pendingPrefetches, prefetchAbortControllers, requests, waiters,
             timers, audios, utterances, revoked, onEndCalls, onErrorCalls,
             lastCallback>>

vars == <<ttsVars, authCalls, app>>

Gens == 1..MaxGen

\* The module's variables as one record, on which the helpers operate.
Cur ==
    [speakGen |-> speakGen, abortController |-> abortController,
     currentAudio |-> currentAudio, currentBlobUrl |-> currentBlobUrl,
     currentUtterance |-> currentUtterance, prefetchCache |-> prefetchCache,
     prefetchBlobUrls |-> prefetchBlobUrls,
     pendingPrefetches |-> pendingPrefetches,
     prefetchAbortControllers |-> prefetchAbortControllers,
     requests |-> requests, waiters |-> waiters, timers |-> timers,
     audios |-> audios, utterances |-> utterances, revoked |-> revoked,
     onEndCalls |-> onEndCalls, onErrorCalls |-> onErrorCalls,
     lastCallback |-> lastCallback]

InstallTts(s) ==
    /\ speakGen' = s.speakGen
    /\ abortController' = s.abortController
    /\ currentAudio' = s.currentAudio
    /\ currentBlobUrl' = s.currentBlobUrl
    /\ currentUtterance' = s.currentUtterance
    /\ prefetchCache' = s.prefetchCache
    /\ prefetchBlobUrls' = s.prefetchBlobUrls
    /\ pendingPrefetches' = s.pendingPrefetches
    /\ prefetchAbortControllers' = s.prefetchAbortControllers
    /\ requests' = s.requests
    /\ waiters' = s.waiters
    /\ timers' = s.timers
    /\ audios' = s.audios
    /\ utterances' = s.utterances
    /\ revoked' = s.revoked
    /\ onEndCalls' = s.onEndCalls
    /\ onErrorCalls' = s.onErrorCalls
    /\ lastCallback' = s.lastCallback

\* A step of the speech service: the other components stay as they are.
Install(s) == InstallTts(s) /\ UNCHANGED <<authCalls, app>>

EmptyMap == [x \in {} |-> 0]
NoAudio == [state |-> "none", url |-> 0]
NoUtterance == [state |-> "none", text |-> << >>]

\* An authFetch call that has not been made yet.
AuthCalls == 1..MaxCalls
IdleCall ==
    [pc |-> "idle", token |-> "undefined", freshToken |-> "undefined",
     sent |-> << >>, status |-> 0, signIns |-> 0]

\* App after its first render, before any error was reported.
\*   isLoading    the state set by setIsLoading
\*   rendered     isLoading as the last render saw it: the value the
\*                closures handleSend and handleCodeError captured
\*   fixGuard     fixGuardRef.current: signature -> [count, ts]
\*   now          Date.now()
\*   sends, fixes fetches of handleSend / handleCodeError in flight
\*   fixSent      fix requests sent so far
\*   paused       'paused auto-fix' messages appended so far
\*   sent, errors calls that got past the guards of handleSend, and calls of
\*                handleCodeError, so far
\*   seen         what was reported: signature -> [streak, ts], the number of
\*                consecutive occurrences each less than the window after the
\*                previous one, and the time of the last
AppIdle ==
    [isLoading |-> FALSE, rendered |-> FALSE, fixGuard |-> EmptyMap,
     now |-> 0, sends |-> 0, fixes |-> 0, fixSent |-> 0, paused |-> 0,
     sent |-> 0, errors |-> 0, seen |-> EmptyMap]

Init ==
    /\ speakGen = 0
    /\ abortController = 0
    /\ currentAudio = 0
    /\ currentBlobUrl = 0
    /\ currentUtterance = 0
    /\ prefetchCache = << >>
    /\ prefetchBlobUrls = {}
    /\ pendingPrefetches = EmptyMap
    /\ prefetchAbortControllers = EmptyMap
    /\ requests = << >>
    /\ waiters = {}
    /\ timers = << >>
    /\ audios = [g \in Gens |-> NoAudio]
    /\ utterances = [g \in Gens |-> NoUtterance]
    /\ revoked = {}
    /\ onEndCalls = [g \in Gens |-> 0]
    /\ onErrorCalls = [g \in Gens |-> 0]
    /\ lastCallback = [g \in Gens |-> "none"]
    /\ authCalls = [c \in AuthCalls |-> IdleCall]
    /\ app = AppIdle

(***************************************************************************)
(* Maps.  _prefetchCache is a sequence of entries in insertion order;     *)
(* the two pending maps are functions on the texts they hold.             *)
(***************************************************************************)
CacheKeys(cache) == {cache[i].text : i \in 1..Len(cache)}
CacheHas(cache, text) == text \in CacheKeys(cache)
CacheGet(cache, text) ==
    IF CacheHas(cache, text)
    THEN (CHOOSE i \in 1..Len(cache) : cache[i].text = text)
    ELSE 0
CacheUrl(cache, text) ==
    IF CacheHas(cache, text) THEN cache[CacheGet(cache, text)].url ELSE 0
CacheUrls(cache) == {cache[i].url : i \in 1..Len(cache)}

\* Map.prototype.set: an existing key keeps its position and takes the value.
CacheSet(cache, text, url) ==
    IF CacheHas(cache, text)
    THEN [cache EXCEPT ![CacheGet(cache, text)].url = url]
    ELSE Append(cache, [text |-> text, url |-> url])

MapHas(m, k) == k \in DOMAIN m
MapSet(m, k, v) == [x \in (DOMAIN m) \cup {k} |-> IF x = k THEN v ELSE m[x]]
MapDelete(m, k) == [x \in (DOMAIN m) \ {k} |-> m[x]]

(***************************************************************************)
(* Internal helpers of the service.                                       *)
(***************************************************************************)

\* AbortController.abort(): a request still in flight will reject.
Abort(reqs, r) ==
    IF reqs[r].status = "inflight" THEN [reqs EXCEPT ![r].aborted = TRUE]
    ELSE reqs

\* audio.pause(); removeAttribute("src"); load(): a pending play() promise
\* is rejected, a playing element just stops.
Unload(a) ==
    IF a.state = "starting" THEN [a EXCEPT !.state = "rejecting"]
    ELSE IF a.state = "playing" THEN [a EXCEPT !.state = "stopped"]
    ELSE a

\* window.speechSynthesis.cancel(): every speaking utterance is cut off and
\* will receive its terminal event.
SynthCancel(utts) ==
    [g \in DOMAIN utts |->
        IF utts[g].state = "speaking"
        THEN [utts[g] EXCEPT !.state = "cancelled"]
        ELSE utts[g]]

\* onEnd?.() and onError?.() of the speak() call that captured gen.
CallOnEnd(s, gen) ==
    [s EXCEPT !.onEndCalls[gen] = @ + 1, !.lastCallback[gen] = "onEnd"]
CallOnError(s, gen) ==
    [s EXCEPT !.onErrorCalls[gen] = @ + 1, !.lastCallback[gen] = "onError"]

\* Mutant of _cleanup: the current handle is revoked, cached or not.
Cleanup_RevokesCached(s) ==
    LET s1 == [s EXCEPT !.speakGen = @ + 1]
        s2 == IF s1.abortController # 0
              THEN [s1 EXCEPT !.requests = Abort(@, s1.abortController),
                              !.abortController = 0]
              ELSE s1
        s3 == IF s2.currentAudio # 0
              THEN [s2 EXCEPT !.audios[s2.currentAudio] = Unload(@),
                              !.currentAudio = 0]
              ELSE s2
        s4 == IF s3.currentBlobUrl # 0
              THEN [s3 EXCEPT !.revoked = @ \cup {s3.currentBlobUrl}]
              ELSE s3
        s5 == [s4 EXCEPT !.currentBlobUrl = 0]
    IN  IF s5.currentUtterance # 0
        THEN [s5 EXCEPT !.utterances = SynthCancel(@),
                        !.currentUtterance = 0]
        ELSE s5

\* Mutant of _cleanup: the direct fetch in flight is left running.
Cleanup_NoAbort(s) ==
    LET s1 == [s EXCEPT !.speakGen = @ + 1]
        s3 == IF s1.currentAudio # 0
              THEN [s1 EXCEPT !.audios[s1.currentAudio] = Unload(@),
                              !.currentAudio = 0]
              ELSE s1
        s4 == IF s3.currentBlobUrl # 0
                 /\ s3.currentBlobUrl \notin s3.prefetchBlobUrls
              THEN [s3 EXCEPT !.revoked = @ \cup {s3.currentBlobUrl}]
              ELSE s3
        s5 == [s4 EXCEPT !.currentBlobUrl = 0]
    IN  IF s5.currentUtterance # 0
        THEN [s5 EXCEPT !.utterances = SynthCancel(@),
                        !.currentUtterance = 0]
        ELSE s5

\* Mutant of _cleanup: the prefetches are cancelled with the session.
Cleanup_CancelsPrefetches(s) ==
    LET s1 == [s EXCEPT !.speakGen = @ + 1]
        s2 == IF s1.abortController # 0
              THEN [s1 EXCEPT !.requests = Abort(@, s1.abortController),
                              !.abortController = 0]
              ELSE s1
        s3 == IF s2.currentAudio # 0
              THEN [s2 EXCEPT !.audios[s2.currentAudio] = Unload(@),
                              !.currentAudio = 0]
              ELSE s2
        s4 == IF s3.currentBlobUrl # 0
                 /\ s3.currentBlobUrl \notin s3.prefetchBlobUrls
              THEN [s3 EXCEPT !.revoked = @ \cup {s3.currentBlobUrl}]
              ELSE s3
        s5 == [s4 EXCEPT !.currentBlobUrl = 0]
        s6 == IF s5.currentUtterance # 0
              THEN [s5 EXCEPT !.utterances = SynthCancel(@),
                              !.currentUtterance = 0]
              ELSE s5
        controlled == {s6.prefetchAbortControllers[t] :
                          t \in DOMAIN s6.prefetchAbortControllers}
    IN  [s6 EXCEPT !.requests =
                       [r \in DOMAIN @ |->
                           IF r \in controlled /\ @[r].status = "inflight"
                           THEN [@[r] EXCEPT !.aborted = TRUE]
                           ELSE @[r]],
                   !.prefetchAbortControllers = EmptyMap,
                   !.pendingPrefetches = EmptyMap]

\* _cleanup
Cleanup(s) ==
    LET s1 == [s EXCEPT !.speakGen = @ + 1]
        s2 == IF s1.abortController # 0
              THEN [s1 EXCEPT !.requests = Abort(@, s1.abortController),
                              !.abortController = 0]
              ELSE s1
        s3 == IF s2.currentAudio # 0
              THEN [s2 EXCEPT !.audios[s2.currentAudio] = Unload(@),
                              !.currentAudio = 0]
              ELSE s2
        s4 == IF s3.currentBlobUrl # 0
                 /\ s3.currentBlobUrl \notin s3.prefetchBlobUrls
              THEN [s3 EXCEPT !.revoked = @ \cup {s3.currentBlobUrl}]
              ELSE s3
        s5 == [s4 EXCEPT !.currentBlobUrl = 0]
    IN  IF s5.currentUtterance # 0
        THEN [s5 EXCEPT !.utterances = SynthCancel(@),
                        !.currentUtterance = 0]
        ELSE s5

\* _playBlobUrl: new Audio(blobUrl), handlers wired, audio.play() called.
PlayBlobUrl(s, blobUrl, gen) ==
    [s EXCEPT !.audios[gen] = [state |-> "starting", url |-> blobUrl],
              !.currentAudio = gen,
              !.currentBlobUrl = blobUrl]

\* Mutant of _speakBrowser: the synthesizer is not cancelled first.
SpeakBrowser_NoCancel(s, text, gen) ==
    [s EXCEPT !.utterances[gen] = [state |-> "speaking", text |-> text],
              !.currentUtterance = gen]

\* _speakBrowser
SpeakBrowser(s, text, gen) ==
    [s EXCEPT !.utterances =
                  [SynthCancel(@) EXCEPT
                      ![gen] = [state |-> "speaking", text |-> text]],
              !.currentUtterance = gen]

\* The while loop of _cacheStore: the first key of the Map is deleted and
\* its url revoked until the size is within MAX_PREFETCH.
RECURSIVE EvictLoop(_)
EvictLoop(s) ==
    IF Len(s.prefetchCache) > MAX_PREFETCH
    THEN LET oldUrl == Head(s.prefetchCache).url
         IN  EvictLoop([s EXCEPT !.prefetchBlobUrls = @ \ {oldUrl},
                                 !.revoked = @ \cup {oldUrl},
                                 !.prefetchCache = Tail(@)])
    ELSE s

\* Mutant of _cacheStore: the eviction loop is missing.
CacheStore_NoEvict(s, text, blobUrl) ==
    [s EXCEPT !.prefetchCache = CacheSet(@, text, blobUrl),
              !.prefetchBlobUrls = @ \cup {blobUrl}]

\* _cacheStore
CacheStore(s, text, blobUrl) ==
    EvictLoop([s EXCEPT !.prefetchCache = CacheSet(@, text, blobUrl),
                        !.prefetchBlobUrls = @ \cup {blobUrl}])

\* _fetchAudio: the request issued; its promise settles later.
NewRequest(text, kind, gen) ==
    [text |-> text, kind |-> kind, gen |-> gen, aborted |-> FALSE,
     status |-> "inflight"]

(***************************************************************************)
(* Public API.                                                             *)
(***************************************************************************)

\* Mutant of speak: the empty-text branch returns without calling onEnd.
SpeakOp_EmptySilent(s, raw) ==
    LET c == Cleanup(s)
        trimmed == trim(raw)
        gen == c.speakGen
        cached == CacheUrl(c.prefetchCache, trimmed)
    IN  IF trimmed = << >> THEN c
        ELSE IF cached # 0 THEN PlayBlobUrl(c, cached, gen)
        ELSE IF MapHas(c.pendingPrefetches, trimmed)
        THEN [c EXCEPT !.waiters = @ \cup
                 {[req |-> c.pendingPrefetches[trimmed], gen |-> gen,
                   text |-> trimmed]}]
        ELSE [c EXCEPT !.requests = Append(@, NewRequest(trimmed, "speak", gen)),
                       !.abortController = Len(c.requests) + 1]

\* Mutant of speak: the empty-text branch calls onEnd and does not return.
SpeakOp_EmptyFallsThrough(s, raw) ==
    LET c == Cleanup(s)
        trimmed == trim(raw)
        gen == c.speakGen
        cached == CacheUrl(c.prefetchCache, trimmed)
        c1 == IF trimmed = << >> THEN CallOnEnd(c, gen) ELSE c
    IN  IF cached # 0 THEN PlayBlobUrl(c1, cached, gen)
        ELSE IF MapHas(c1.pendingPrefetches, trimmed)
        THEN [c1 EXCEPT !.waiters = @ \cup
                 {[req |-> c1.pendingPrefetches[trimmed], gen |-> gen,
                   text |-> trimmed]}]
        ELSE [c1 EXCEPT !.requests = Append(@, NewRequest(trimmed, "speak", gen)),
                        !.abortController = Len(c1.requests) + 1]

\* Mutant of speak: the pending prefetch is consulted before the cache.
SpeakOp_PendingFirst(s, raw) ==
    LET c == Cleanup(s)
        trimmed == trim(raw)
        gen == c.speakGen
        cached == CacheUrl(c.prefetchCache, trimmed)
    IN  IF trimmed = << >> THEN CallOnEnd(c, gen)
        ELSE IF MapHas(c.pendingPrefetches, trimmed)
        THEN [c EXCEPT !.waiters = @ \cup
                 {[req |-> c.pendingPrefetches[trimmed], gen |-> gen,
                   text |-> trimmed]}]
        ELSE IF cached # 0 THEN PlayBlobUrl(c, cached, gen)
        ELSE [c EXCEPT !.requests = Append(@, NewRequest(trimmed, "speak", gen)),
                       !.abortController = Len(c.requests) + 1]

\* speak(text, {onEnd, onError})
SpeakOp(s, raw) ==
    LET c == Cleanup(s)
        trimmed == trim(raw)
        gen == c.speakGen
        cached == CacheUrl(c.prefetchCache, trimmed)
    IN  IF trimmed = << >> THEN CallOnEnd(c, gen)
        ELSE IF cached # 0 THEN PlayBlobUrl(c, cached, gen)
        ELSE IF MapHas(c.pendingPrefetches, trimmed)
        THEN [c EXCEPT !.waiters = @ \cup
                 {[req |-> c.pendingPrefetches[trimmed], gen |-> gen,
                   text |-> trimmed]}]
        ELSE [c EXCEPT !.requests = Append(@, NewRequest(trimmed, "speak", gen)),
                       !.abortController = Len(c.requests) + 1]

\* Mutant of cancelSpeech: the session is torn down, the counter stays.
CancelSpeechOp_NoBump(s) == [Cleanup(s) EXCEPT !.speakGen = s.speakGen]

\* cancelSpeech()
CancelSpeechOp(s) == Cleanup(s)

\* Mutant of prefetchSpeech: the in-flight check is missing.
PrefetchSpeechOp_NoPendingCheck(s, raw) ==
    LET trimmed == trim(raw)
        r == Len(s.requests) + 1
    IN  IF trimmed = << >> \/ CacheHas(s.prefetchCache, trimmed)
        THEN s
        ELSE [s EXCEPT !.prefetchAbortControllers = MapSet(@, trimmed, r),
                       !.requests = Append(@, NewRequest(trimmed, "prefetch", 0)),
                       !.pendingPrefetches = MapSet(@, trimmed, r)]

\* prefetchSpeech(text)
PrefetchSpeechOp(s, raw) ==
    LET trimmed == trim(raw)
        r == Len(s.requests) + 1
    IN  IF \/ trimmed = << >>
           \/ CacheHas(s.prefetchCache, trimmed)
           \/ MapHas(s.pendingPrefetches, trimmed)
        THEN s
        ELSE [s EXCEPT !.prefetchAbortControllers = MapSet(@, trimmed, r),
                       !.requests = Append(@, NewRequest(trimmed, "prefetch", 0)),
                       !.pendingPrefetches = MapSet(@, trimmed, r)]

\* [...new Set(narrations.map(trim).filter(Boolean))]: first occurrences, in
\* input order.
RECURSIVE Unique(_, _)
Unique(narrations, seen) ==
    IF narrations = << >> THEN << >>
    ELSE LET t == trim(Head(narrations))
         IN  IF t = << >> \/ t \in seen
             THEN Unique(Tail(narrations), seen)
             ELSE <<t>> \o Unique(Tail(narrations), seen \cup {t})

\* Mutant of the forEach of prefetchAllScenes: every later scene is
\* scheduled at the same delay.
RECURSIVE ForEachScene_SameDelay(_, _, _)
ForEachScene_SameDelay(s, unique, i) ==
    IF i >= Len(unique) THEN s
    ELSE LET text == unique[i + 1]
             s1 == IF \/ CacheHas(s.prefetchCache, text)
                      \/ MapHas(s.pendingPrefetches, text)
                   THEN s
                   ELSE IF i = 0 THEN PrefetchSpeechOp(s, text)
                   ELSE [s EXCEPT !.timers = Append(@,
                            [text |-> text, delay |-> PREFETCH_STAGGER_MS])]
         IN  ForEachScene_SameDelay(s1, unique, i + 1)

\* The forEach of prefetchAllScenes from (0-based) index i on.
RECURSIVE ForEachScene(_, _, _)
ForEachScene(s, unique, i) ==
    IF i >= Len(unique) THEN s
    ELSE LET text == unique[i + 1]
             s1 == IF \/ CacheHas(s.prefetchCache, text)
                      \/ MapHas(s.pendingPrefetches, text)
                   THEN s
                   ELSE IF i = 0 THEN PrefetchSpeechOp(s, text)
                   ELSE [s EXCEPT !.timers = Append(@,
                            [text |-> text, delay |-> i * PREFETCH_STAGGER_MS])]
         IN  ForEachScene(s1, unique, i + 1)

\* prefetchAllScenes(narrations)
PrefetchAllScenesOp(s, narrations) ==
    ForEachScene(s, Unique(narrations, {}), 0)

\* The setTimeout callback of prefetchAllScenes.
TimerOp(s, text) ==
    IF CacheHas(s.prefetchCache, text) \/ MapHas(s.pendingPrefetches, text)
    THEN s
    ELSE PrefetchSpeechOp(s, text)

\* cancelAllPrefetches(): every controller aborted, both maps cleared.
RECURSIVE AbortAll(_, _)
AbortAll(reqs, rs) ==
    IF rs = {} THEN reqs
    ELSE LET r == CHOOSE x \in rs : TRUE
         IN  AbortAll(Abort(reqs, r), rs \ {r})

\* Mutant of cancelAllPrefetches: the cache is dropped with the requests.
CancelAllPrefetchesOp_DropCache(s) ==
    [s EXCEPT !.requests =
                  AbortAll(@, {s.prefetchAbortControllers[t] :
                                  t \in DOMAIN s.prefetchAbortControllers}),
              !.prefetchAbortControllers = EmptyMap,
              !.pendingPrefetches = EmptyMap,
              !.revoked = @ \cup s.prefetchBlobUrls,
              !.prefetchBlobUrls = {},
              !.prefetchCache = << >>]

CancelAllPrefetchesOp(s) ==
    [s EXCEPT !.requests =
                  AbortAll(@, {s.prefetchAbortControllers[t] :
                                  t \in DOMAIN s.prefetchAbortControllers}),
              !.prefetchAbortControllers = EmptyMap,
              !.pendingPrefetches = EmptyMap]

(***************************************************************************)
(* Promise callbacks.  blobUrl = 0 is null.                                *)
(***************************************************************************)

\* Mutant of the .then of speak()'s fetch: the staleness check is missing.
SpeakFetchThen_NoGuard(s, r, blobUrl) ==
    LET gen == s.requests[r].gen
        trimmed == s.requests[r].text
    IN  IF blobUrl # 0
        THEN PlayBlobUrl(CacheStore(s, trimmed, blobUrl), blobUrl, gen)
        ELSE SpeakBrowser(s, trimmed, gen)

\* Mutant of the .then of speak()'s fetch: the handle is played, not stored.
SpeakFetchThen_NoStore(s, r, blobUrl) ==
    LET gen == s.requests[r].gen
        trimmed == s.requests[r].text
    IN  IF gen # s.speakGen THEN s
        ELSE IF blobUrl # 0 THEN PlayBlobUrl(s, blobUrl, gen)
        ELSE SpeakBrowser(s, trimmed, gen)

\* The .then of speak()'s own fetch.
SpeakFetchThen(s, r, blobUrl) ==
    LET gen == s.requests[r].gen
        trimmed == s.requests[r].text
    IN  IF gen # s.speakGen THEN s
        ELSE IF blobUrl # 0
        THEN PlayBlobUrl(CacheStore(s, trimmed, blobUrl), blobUrl, gen)
        ELSE SpeakBrowser(s, trimmed, gen)

\* Mutant of the .then inside prefetchSpeech: a failed request stays
\* registered.
PrefetchThen_FailureStaysPending(s, r, blobUrl) ==
    LET trimmed == s.requests[r].text
        s1 == [s EXCEPT !.pendingPrefetches = MapDelete(@, trimmed),
                        !.prefetchAbortControllers = MapDelete(@, trimmed)]
    IN  IF blobUrl # 0 THEN CacheStore(s1, trimmed, blobUrl) ELSE s

\* The .then inside prefetchSpeech.
PrefetchThen(s, r, blobUrl) ==
    LET trimmed == s.requests[r].text
        s1 == [s EXCEPT !.pendingPrefetches = MapDelete(@, trimmed),
                        !.prefetchAbortControllers = MapDelete(@, trimmed)]
    IN  IF blobUrl # 0 THEN CacheStore(s1, trimmed, blobUrl) ELSE s1

\* Mutant of the pending.then of speak(): the staleness check is missing.
WaiterThen_NoGuard(s, w, blobUrl) ==
    IF blobUrl # 0 THEN PlayBlobUrl(s, blobUrl, w.gen)
    ELSE SpeakBrowser(s, w.text, w.gen)

\* The pending.then of a speak() call that found the prefetch in flight.
WaiterThen(s, w, blobUrl) ==
    IF w.gen # s.speakGen THEN s
    ELSE IF blobUrl # 0 THEN PlayBlobUrl(s, blobUrl, w.gen)
    ELSE SpeakBrowser(s, w.text, w.gen)

\* The callbacks registered on one promise run in registration order.
RECURSIVE RunWaiters(_, _, _)
RunWaiters(s, ws, blobUrl) ==
    IF ws = {} THEN s
    ELSE LET w == CHOOSE x \in ws : \A y \in ws : x.gen <= y.gen
         IN  RunWaiters(WaiterThen(s, w, blobUrl), ws \ {w}, blobUrl)

\* What _fetchAudio resolves to: the new object URL, or null on a non-ok
\* status, a network failure or an abort.
Resolved(s, r, ok) ==
    [s EXCEPT !.requests[r].status = IF ok THEN "ok" ELSE "failed"]
\* A settled request keeps its text, kind and outcome; what its closures
\* captured is garbage once they have run.
Settled(s, r) ==
    [s EXCEPT !.requests[r].gen = 0, !.requests[r].aborted = FALSE]
BlobUrlOf(r, ok) == IF ok THEN r ELSE 0

(***************************************************************************)
(* Actions.                                                                *)
(***************************************************************************)
Inflight(r) == r \in 1..Len(requests) /\ requests[r].status = "inflight"

\* The calls that issue requests or set timers, within the number of
\* requests and timers the specification taking them explores.
SpeakWithin(raw, maxReq) ==
    /\ speakGen < MaxGen
    /\ LET s == SpeakOp(Cur, raw)
       IN  Len(s.requests) <= maxReq /\ Install(s)

Speak(raw) == SpeakWithin(raw, MaxReq)

CancelSpeech ==
    /\ speakGen < MaxGen
    /\ Install(CancelSpeechOp(Cur))

PrefetchSpeechWithin(raw, maxReq) ==
    LET s == PrefetchSpeechOp(Cur, raw)
    IN  Len(s.requests) <= maxReq /\ Install(s)

PrefetchSpeech(raw) == PrefetchSpeechWithin(raw, MaxReq)

PrefetchAllScenesWithin(narrations, maxReq, maxTimers) ==
    LET s == PrefetchAllScenesOp(Cur, narrations)
    IN  /\ Len(s.requests) <= maxReq
        /\ Len(s.timers) <= maxTimers
        /\ Install(s)

PrefetchAllScenes(narrations) ==
    PrefetchAllScenesWithin(narrations, MaxReq, MaxTimers)

\* A timer runs once every timer set before it with no longer a delay has.
TimerFireWithin(k, maxReq) ==
    /\ k \in 1..Len(timers)
    /\ \A j \in 1..(k - 1) : timers[j].delay > timers[k].delay
    /\ LET s == [Cur EXCEPT !.timers =
                    SubSeq(timers, 1, k - 1) \o SubSeq(timers, k + 1, Len(timers))]
       IN  /\ Len(TimerOp(s, timers[k].text).requests) <= maxReq
           /\ Install(TimerOp(s, timers[k].text))

TimerFire(k) == TimerFireWithin(k, MaxReq)

CancelAllPrefetches == Install(CancelAllPrefetchesOp(Cur))

\* The fetch of a speak() call settles; an aborted request only fails.
SpeakFetchSettled(r, ok) ==
    /\ Inflight(r)
    /\ requests[r].kind = "speak"
    /\ ok => ~requests[r].aborted
    /\ Install(Settled(
           SpeakFetchThen(Resolved(Cur, r, ok), r, BlobUrlOf(r, ok)), r))

\* The fetch of a prefetch settles: prefetchSpeech's callback runs, then the
\* callbacks of the speak() calls awaiting its promise.
PrefetchSettled(r, ok) ==
    /\ Inflight(r)
    /\ requests[r].kind = "prefetch"
    /\ ok => ~requests[r].aborted
    /\ LET ws == {w \in waiters : w.req = r}
           s1 == PrefetchThen(Resolved(Cur, r, ok), r, BlobUrlOf(r, ok))
           s2 == [s1 EXCEPT !.waiters = @ \ ws]
       IN  Install(Settled(RunWaiters(s2, ws, BlobUrlOf(r, ok)), r))

(***************************************************************************)
(* Media and speech events.                                                *)
(***************************************************************************)

\* Mutant of audio.onended: the element is forgotten, onEnd is not called.
OnEnded_NoCallback(s, gen) == [s EXCEPT !.currentAudio = 0]

\* audio.onended
OnEnded(s, gen) == CallOnEnd([s EXCEPT !.currentAudio = 0], gen)
\* audio.onerror
OnAudioError(s, gen) == CallOnError([s EXCEPT !.currentAudio = 0], gen)
\* audio.play().catch
OnPlayRejected(s, gen) == CallOnError([s EXCEPT !.currentAudio = 0], gen)
\* utterance.onend
OnUtteranceEnd(s, gen) == CallOnEnd([s EXCEPT !.currentUtterance = 0], gen)
\* Mutant of utterance.onerror: the error is reported, onEnd is not called.
OnUtteranceError_NoEnd(s, gen) ==
    CallOnError([s EXCEPT !.currentUtterance = 0], gen)

\* utterance.onerror
OnUtteranceError(s, gen) ==
    CallOnEnd(CallOnError([s EXCEPT !.currentUtterance = 0], gen), gen)

\* play() resolves: playback has begun.
PlayResolved(g) ==
    /\ audios[g].state = "starting"
    /\ audios' = [audios EXCEPT ![g].state = "playing"]
    /\ UNCHANGED <<speakGen, abortController, currentAudio, currentBlobUrl,
                   currentUtterance, prefetchCache, prefetchBlobUrls,
                   pendingPrefetches, prefetchAbortControllers, requests,
                   waiters, timers, utterances, revoked, onEndCalls,
                   onErrorCalls, lastCallback, authCalls, app>>

\* play() rejects: playback was refused, or the element was paused by
\* _cleanup before playback began.
PlayRejected(g) ==
    /\ audios[g].state \in {"starting", "rejecting"}
    /\ Install(OnPlayRejected(
           [Cur EXCEPT !.audios[g].state = "stopped"], g))

AudioEnded(g) ==
    /\ audios[g].state = "playing"
    /\ Install(OnEnded([Cur EXCEPT !.audios[g].state = "stopped"], g))

AudioError(g) ==
    /\ audios[g].state = "playing"
    /\ Install(OnAudioError([Cur EXCEPT !.audios[g].state = "stopped"], g))

\* The utterance ends: it was spoken to its end, or (browsers that report
\* a cancel as end) it was cancelled.
UtteranceEnd(g) ==
    /\ utterances[g].state \in {"speaking", "cancelled"}
    /\ Install(OnUtteranceEnd([Cur EXCEPT !.utterances[g].state = "done"], g))

\* The utterance errors: synthesis failed, or it was cancelled.
UtteranceError(g) ==
    /\ utterances[g].state \in {"speaking", "cancelled"}
    /\ Install(OnUtteranceError([Cur EXCEPT !.utterances[g].state = "done"], g))

\* Narration lists: empty and duplicate entries are filtered by the call.
SceneLists == [1..MaxScenes -> RawTexts \ {<< >>}]

Next ==
    \/ \E raw \in RawTexts : Speak(raw)
    \/ CancelSpeech
    \/ \E raw \in RawTexts : PrefetchSpeech(raw)
    \/ \E narrations \in SceneLists : PrefetchAllScenes(narrations)
    \/ \E k \in 1..MaxTimers : TimerFire(k)
    \/ CancelAllPrefetches
    \/ \E r \in 1..MaxReq, ok \in BOOLEAN : SpeakFetchSettled(r, ok)
    \/ \E r \in 1..MaxReq, ok \in BOOLEAN : PrefetchSettled(r, ok)
    \/ \E g \in Gens : PlayResolved(g)
    \/ \E g \in Gens : PlayRejected(g)
    \/ \E g \in Gens : AudioEnded(g)
    \/ \E g \in Gens : AudioError(g)
    \/ \E g \in Gens : UtteranceEnd(g)
    \/ \E g \in Gens : UtteranceError(g)

Spec == Init /\ [][Next]_vars

\* The synthesizer emits a terminal event for every utterance it was given.
SynthFair == \A g \in Gens : WF_vars(UtteranceEnd(g) \/ UtteranceError(g))
LiveSpec == Init /\ [][Next]_vars /\ SynthFair

\* Every Audio element the service starts emits its terminal events: play()
\* settles, and an element that plays ends or fails.
AudioFair ==
    \A g \in Gens :
        /\ WF_vars(PlayResolved(g) \/ PlayRejected(g))
        /\ WF_vars(AudioEnded(g) \/ AudioError(g))
CallbackSpec == Init /\ [][Next]_vars /\ SynthFair /\ AudioFair

(***************************************************************************)
(* The prefetch coordinator on its own: narration lists of three scenes,  *)
(* one more request and one more timer than Spec explores, no playback.   *)
(***************************************************************************)
SceneTexts == {<<i>> : i \in 1..(MaxScenes + 1)}
LongSceneLists == [1..(MaxScenes + 1) -> SceneTexts]

PrefetchNext ==
    \/ \E raw \in SceneTexts : PrefetchSpeechWithin(raw, MaxReq + 1)
    \/ \E narrations \in LongSceneLists :
          PrefetchAllScenesWithin(narrations, MaxReq + 1, MaxTimers + 1)
    \/ \E k \in 1..(MaxTimers + 1) : TimerFireWithin(k, MaxReq + 1)
    \/ CancelAllPrefetches
    \/ \E r \in 1..(MaxReq + 1), ok \in BOOLEAN : PrefetchSettled(r, ok)

PrefetchSpec == Init /\ [][PrefetchNext]_vars

(***************************************************************************)
(* The fallback synthesizer on its own: the backend is down, so every     *)
(* fetch of speak() fails and every call is spoken locally; one more      *)
(* request than Spec explores.                                             *)
(***************************************************************************)
FallbackNext ==
    \/ \E raw \in Texts : SpeakWithin(raw, MaxReq + 1)
    \/ CancelSpeech
    \/ \E r \in 1..(MaxReq + 1) : SpeakFetchSettled(r, FALSE)
    \/ \E g \in Gens : UtteranceEnd(g)
    \/ \E g \in Gens : UtteranceError(g)

FallbackSpec == Init /\ [][FallbackNext]_vars

(***************************************************************************)
(* useAuthenticatedFetch (hooks/useAuthenticatedFetch.ts).  authFetch is  *)
(* an async function: it runs from one await to the next, so a call is a  *)
(* record with its position (pc) and locals, and each resumption is one   *)
(* action.  Calls are independent and interleave.                         *)
(*   pc: idle -> token -> fetch -> (resolved | rejected | refresh)        *)
(*       refresh -> (retry | hung),  retry -> (resolved | rejected)       *)
(*       token -> hung                                                     *)
(* sent holds the token of every fetch() the call issued; signIns counts  *)
(* its signIn() calls; a hung call returned hangForRedirect().            *)
(***************************************************************************)
\* What getAccessToken() produces: a token, the empty string, undefined, or
\* an exception.
Tokens == {"t1", "t2"}
TokenOutcomes == Tokens \cup {"", "undefined", "throws"}
\* !token
Falsy(token) == token \in {"", "undefined"}
\* res.status of a response; a fetch can also reject (network failure).
UNAUTHORIZED == 401
Statuses == {200, UNAUTHORIZED, 500}
FetchOutcomes ==
    [rejects : {FALSE}, status : Statuses] \cup {[rejects |-> TRUE, status |-> 0]}

\* signIn(); return hangForRedirect()
HangForRedirect(call) ==
    [call EXCEPT !.signIns = @ + 1, !.pc = "hung"]

\* fetch(url, {...options, headers: buildHeaders(t)})
AuthRequest(call, t, pc) == [call EXCEPT !.sent = Append(@, t), !.pc = pc]

\* authFetch, from its first await (getAccessToken) to the first fetch.
AfterToken(call, outcome) ==
    IF outcome = "throws" THEN HangForRedirect(call)
    ELSE IF Falsy(outcome)
    THEN HangForRedirect([call EXCEPT !.token = outcome])
    ELSE AuthRequest([call EXCEPT !.token = outcome], outcome, "fetch")

\* authFetch, from the first response on.
AfterResponse(call, outcome) ==
    IF outcome.rejects THEN [call EXCEPT !.pc = "rejected"]
    ELSE IF outcome.status = UNAUTHORIZED
    THEN [call EXCEPT !.status = outcome.status, !.pc = "refresh"]
    ELSE [call EXCEPT !.status = outcome.status, !.pc = "resolved"]

\* Mutant of the refresh step: a token equal to the old one is retried.
AfterRefresh_RetriesSameToken(call, outcome) ==
    IF outcome = "throws" THEN HangForRedirect(call)
    ELSE IF Falsy(outcome)
    THEN HangForRedirect([call EXCEPT !.freshToken = outcome])
    ELSE AuthRequest([call EXCEPT !.freshToken = outcome], outcome, "retry")

\* authFetch, from the second getAccessToken() on.
AfterRefresh(call, outcome) ==
    IF outcome = "throws" THEN HangForRedirect(call)
    ELSE IF Falsy(outcome) \/ outcome = call.token
    THEN HangForRedirect([call EXCEPT !.freshToken = outcome])
    ELSE AuthRequest([call EXCEPT !.freshToken = outcome], outcome, "retry")

\* The promise of the retry is the one authFetch returns.
AfterRetry(call, outcome) ==
    IF outcome.rejects THEN [call EXCEPT !.pc = "rejected"]
    ELSE [call EXCEPT !.status = outcome.status, !.pc = "resolved"]

SetCall(c, call) ==
    /\ authCalls' = [authCalls EXCEPT ![c] = call]
    /\ UNCHANGED <<ttsVars, app>>

AuthFetch(c) ==
    /\ authCalls[c].pc = "idle"
    /\ SetCall(c, [authCalls[c] EXCEPT !.pc = "token"])

GetAccessTokenSettled(c, outcome) ==
    /\ authCalls[c].pc = "token"
    /\ SetCall(c, AfterToken(authCalls[c], outcome))

FetchSettled(c, outcome) ==
    /\ authCalls[c].pc = "fetch"
    /\ SetCall(c, AfterResponse(authCalls[c], outcome))

RefreshSettled(c, outcome) ==
    /\ authCalls[c].pc = "refresh"
    /\ SetCall(c, AfterRefresh(authCalls[c], outcome))

RetrySettled(c, outcome) ==
    /\ authCalls[c].pc = "retry"
    /\ SetCall(c, AfterRetry(authCalls[c], outcome))

AuthNext ==
    \/ \E c \in AuthCalls : AuthFetch(c)
    \/ \E c \in AuthCalls, outcome \in TokenOutcomes :
          GetAccessTokenSettled(c, outcome)
    \/ \E c \in AuthCalls, outcome \in FetchOutcomes : FetchSettled(c, outcome)
    \/ \E c \in AuthCalls, outcome \in TokenOutcomes :
          RefreshSettled(c, outcome)
    \/ \E c \in AuthCalls, outcome \in FetchOutcomes : RetrySettled(c, outcome)

AuthSpec == Init /\ [][AuthNext]_vars

(***************************************************************************)
(* App: handleNewSession, handleSend and the auto-fix of runtime errors.   *)
(* The handlers are closures of a render: the isLoading they test is the   *)
(* value of that render (app.rendered), while setIsLoading changes the     *)
(* state (app.isLoading) that the next render will show.                   *)
(***************************************************************************)
\* Runtime errors: strings of up to three characters, two of them with the
\* same signature.
Errors == {<<1, 2, 1>>, <<1, 2, 2>>, <<2>>}

\* error.slice(0, 200)
Slice(error) ==
    SubSeq(error, 1, IF Len(error) < SigLen THEN Len(error) ELSE SigLen)

\* The window in which a repeated error counts as a loop, and the count at
\* which the auto-fix pauses.
WINDOW_MS == 20000
PAUSE_AT == 3

\* handleCodeError up to the await of its fetch.
HandleCodeErrorOp(a, error) ==
    IF a.rendered THEN a
    ELSE LET sig == Slice(error)
             now == a.now
             inWindow == IF MapHas(a.fixGuard, sig)
                         THEN now - a.fixGuard[sig].ts < WINDOW_MS
                         ELSE FALSE
             next == IF inWindow THEN a.fixGuard[sig].count + 1 ELSE 1
             a1 == [a EXCEPT !.fixGuard =
                       MapSet(@, sig, [count |-> next, ts |-> now])]
         IN  IF next >= PAUSE_AT
             THEN [a1 EXCEPT !.paused = @ + 1]
             ELSE [a1 EXCEPT !.isLoading = TRUE,
                             !.fixes = @ + 1,
                             !.fixSent = @ + 1]

\* What was reported, whatever handleCodeError did with it: the length of the
\* run of occurrences of the signature, each less than the window after the
\* previous one.
Observe(a, error) ==
    LET sig == Slice(error)
        streak == IF /\ MapHas(a.seen, sig)
                     /\ a.now - a.seen[sig].ts < WINDOW_MS
                  THEN a.seen[sig].streak + 1
                  ELSE 1
    IN  [a EXCEPT !.errors = @ + 1,
                  !.seen = MapSet(@, sig, [streak |-> streak, ts |-> a.now])]

\* handleSend up to the await of its fetch; the input is not blank.
HandleSendOp(a) ==
    IF a.rendered THEN a
    ELSE [a EXCEPT !.isLoading = TRUE, !.sends = @ + 1, !.sent = @ + 1]

\* A step of App that leaves the speech service alone.
SetApp(a) == app' = a /\ UNCHANGED <<ttsVars, authCalls>>

\* The renderer reports a runtime error.
HandleCodeError(error) ==
    /\ app.errors < MaxErrors
    /\ SetApp(HandleCodeErrorOp(Observe(app, error), error))

\* The fetch of a fix settles, with new code or not: finally.
FixSettled ==
    /\ app.fixes > 0
    /\ SetApp([app EXCEPT !.fixes = @ - 1, !.isLoading = FALSE])

HandleSend ==
    /\ app.sent < MaxSends
    /\ SetApp(HandleSendOp(app))

\* The fetch of handleSend fails, or answers without a lesson.
SendSettled ==
    /\ app.sends > 0
    /\ SetApp([app EXCEPT !.sends = @ - 1, !.isLoading = FALSE])

\* The fetch of handleSend answers with a lesson and its scenes.
SendSettledWithScenes(narrations) ==
    /\ app.sends > 0
    /\ LET s == PrefetchAllScenesOp(Cur, narrations)
       IN  /\ Len(s.requests) <= MaxReq
           /\ Len(s.timers) <= MaxTimers
           /\ InstallTts(s)
    /\ app' = [app EXCEPT !.sends = @ - 1, !.isLoading = FALSE]
    /\ UNCHANGED authCalls

HandleNewSession ==
    /\ speakGen < MaxGen
    /\ InstallTts(CancelSpeechOp(CancelAllPrefetchesOp(Cur)))
    /\ app' = [app EXCEPT !.isLoading = FALSE]
    /\ UNCHANGED authCalls

\* React renders App again after a change of state.
Render ==
    /\ app.rendered # app.isLoading
    /\ SetApp([app EXCEPT !.rendered = app.isLoading])

\* Time passes.
Tick ==
    /\ app.now < MaxTicks * TickMs
    /\ SetApp([app EXCEPT !.now = @ + TickMs])

AppNext ==
    \/ \E error \in Errors : HandleCodeError(error)
    \/ FixSettled
    \/ HandleSend
    \/ SendSettled
    \/ \E narrations \in SceneLists : SendSettledWithScenes(narrations)
    \/ HandleNewSession
    \/ Render
    \/ Tick

AppSpec == Init /\ [][AppNext]_vars

(***************************************************************************)
(* Vocabulary of the properties.                                           *)
(***************************************************************************)
\* The handle of the active playback session.
IsActive(url) == currentAudio # 0 /\ currentBlobUrl = url
\* Elements and utterances that are sounding or about to.
LiveAudios == {g \in Gens : audios[g].state \in {"starting", "playing"}}
LiveUtterances == {g \in Gens : utterances[g].state = "speaking"}
\* The speak() call of generation g has produced neither element nor utterance.
Silent(g) == audios[g].state = "none" /\ utterances[g].state = "none"
\* Requests issued by the step.
NewRequests == (Len(requests) + 1)..Len(requests')
NewPrefetches(t) ==
    {r \in NewRequests : requests'[r].kind = "prefetch" /\ requests'[r].text = t}
SpeakStep == \E raw \in RawTexts : Speak(raw)

(***************************************************************************)
(* C1.  In every reachable state the speech cache holds at most           *)
(* MAX_PREFETCH entries.                                                   *)
(***************************************************************************)
C1_CacheBound == Len(prefetchCache) <= MAX_PREFETCH

\* The cache is full and the url of a successful request has been evicted.
C1_Witness ==
    /\ Len(prefetchCache) = MAX_PREFETCH
    /\ \E r \in 1..Len(requests) :
          /\ requests[r].status = "ok"
          /\ r \in revoked
          /\ r \notin CacheUrls(prefetchCache)

(***************************************************************************)
(* C2.  The entry an insertion evicts is the oldest entry whose handle is *)
(* not the one currently playing: an entry that leaves the cache is not   *)
(* the active handle, and every older entry is.                           *)
(***************************************************************************)
C2_EvictSkipsActive ==
    [][\A i \in 1..Len(prefetchCache) :
          prefetchCache[i].text \notin CacheKeys(prefetchCache')
          => /\ ~IsActive(prefetchCache[i].url)
             /\ \A j \in 1..(i - 1) : IsActive(prefetchCache[j].url)]_vars

(***************************************************************************)
(* C3.  A handle is never revoked while it is the resource of the active  *)
(* playback session.                                                       *)
(***************************************************************************)
C3_ActiveNotRevoked == currentAudio # 0 => currentBlobUrl \notin revoked

C5_OneLiveSession == Cardinality(LiveAudios) + Cardinality(LiveUtterances) <= 1

(***************************************************************************)
(* C6.  Once a session has been torn down by cancelSpeech() or a new      *)
(* speak(), none of its callbacks invokes its onEnd or onError or changes *)
(* the current session's state.                                            *)
(***************************************************************************)
C6_NoStaleCallback ==
    [][\A g \in Gens :
          g < speakGen
          => /\ onEndCalls'[g] = onEndCalls[g]
             /\ onErrorCalls'[g] = onErrorCalls[g]
             /\ (PlayRejected(g) \/ UtteranceEnd(g) \/ UtteranceError(g))
                => UNCHANGED <<currentAudio, currentUtterance>>]_vars

(***************************************************************************)
(* C7.  _speakGen never decreases; every speak() and cancelSpeech()       *)
(* raises it by exactly one and nothing else changes it.                  *)
(***************************************************************************)
C7_GenCounter ==
    [][/\ speakGen' >= speakGen
       /\ (SpeakStep \/ CancelSpeech) => speakGen' = speakGen + 1
       /\ speakGen' # speakGen => (SpeakStep \/ CancelSpeech)]_vars

\* speak() with empty text and cancelSpeech() have both raised the counter.
C7_Witness ==
    /\ speakGen = MaxGen
    /\ \E g \in Gens : Silent(g) /\ onEndCalls[g] = 1
    /\ \E g \in Gens : Silent(g) /\ onEndCalls[g] = 0 /\ g < speakGen

C9_PrefetchDedup ==
    [][\A t \in Texts :
          LET known == CacheHas(prefetchCache, t) \/ MapHas(pendingPrefetches, t)
          IN  /\ Cardinality(NewPrefetches(t)) <= 1
              /\ known => NewPrefetches(t) = {}
              /\ \A raw \in RawTexts :
                    (trim(raw) = t /\ PrefetchSpeech(raw))
                    => IF known THEN UNCHANGED vars
                       ELSE /\ NewPrefetches(t) = {Len(requests')}
                            /\ pendingPrefetches'[t] = Len(requests')
              /\ (MapHas(pendingPrefetches, t) /\ ~MapHas(pendingPrefetches', t))
                 => \/ CancelAllPrefetches
                    \/ \E r \in 1..Len(requests), ok \in BOOLEAN :
                          requests[r].text = t /\ PrefetchSettled(r, ok)]_vars

\* A staggered timer is waiting for a text whose prefetch is already pending.
C9_Witness ==
    \E k \in 1..Len(timers) :
        /\ MapHas(pendingPrefetches, timers[k].text)
        /\ Inflight(pendingPrefetches[timers[k].text])


(***************************************************************************)
(* C10.  Fallback trigger: when the fetch serving the current speak(text) *)
(* fails (its own fetch, or the pending prefetch it awaits), local        *)
(* synthesis of that text starts; and, the synthesizer emitting its       *)
(* terminal events, a speaking utterance leads to its call's onEnd unless *)
(* the call is superseded, also when the terminal event is an error.      *)
(***************************************************************************)
C10_FallbackTrigger ==
    /\ [][\A r \in 1..Len(requests) :
            /\ (requests[r].gen = speakGen /\ SpeakFetchSettled(r, FALSE))
               => utterances'[speakGen] =
                      [state |-> "speaking", text |-> requests[r].text]
            /\ \A w \in waiters :
                  (w.req = r /\ w.gen = speakGen /\ PrefetchSettled(r, FALSE))
                  => utterances'[speakGen] =
                         [state |-> "speaking", text |-> w.text]]_vars
    /\ [][\A g \in Gens :
            (utterances[g].state = "speaking" /\ UtteranceError(g))
            => onEndCalls'[g] = onEndCalls[g] + 1]_vars
    /\ \A g \in Gens :
          (utterances[g].state = "speaking")
              ~> (onEndCalls[g] >= 1 \/ speakGen # g)

\* A fallback utterance of the current call failed and its onEnd was called.
C10_Witness ==
    \E g \in Gens :
        /\ g = speakGen
        /\ utterances[g].state = "done"
        /\ onErrorCalls[g] = 1
        /\ onEndCalls[g] = 1

(***************************************************************************)
(* Vocabulary of the prefetch and fallback properties.                     *)
(***************************************************************************)
\* Request r settles in the step, with the given outcome.
SettledStep(r, ok) == SpeakFetchSettled(r, ok) \/ PrefetchSettled(r, ok)
\* Utterances the step starts.
StartedUtterances ==
    {g \in Gens : /\ utterances'[g].state = "speaking"
                  /\ utterances[g].state # "speaking"}
\* Elements the step starts.
StartedAudios ==
    {g \in Gens : audios'[g].state = "starting" /\ audios[g].state = "none"}
\* Prefetch requests in flight.
InflightPrefetches ==
    {r \in 1..Len(requests) :
        requests[r].status = "inflight" /\ requests[r].kind = "prefetch"}
\* Requests the step aborts.
AbortedByStep ==
    {r \in 1..Len(requests) : ~requests[r].aborted /\ requests'[r].aborted}

(***************************************************************************)
(* C11.  Fallback synthesis starts only when a request that was not       *)
(* aborted settles as failed: a step that starts an utterance is the      *)
(* failing settlement of a request nobody cancelled.                      *)
(***************************************************************************)
C11_FallbackOnlyOnFailure ==
    [][StartedUtterances # {}
       => \E r \in 1..Len(requests) :
             ~requests[r].aborted /\ SettledStep(r, FALSE)]_vars

(***************************************************************************)
(* C12.  The settlement of a prefetch request removes only the entry that *)
(* request registered: a pending entry (and abort controller) that        *)
(* belongs to another request stays as it is.                             *)
(***************************************************************************)
C12_OwnEntryOnly ==
    [][\A r \in 1..Len(requests), ok \in BOOLEAN, t \in Texts :
          (/\ PrefetchSettled(r, ok)
           /\ MapHas(pendingPrefetches, t)
           /\ pendingPrefetches[t] # r)
          => /\ MapHas(pendingPrefetches', t)
             /\ pendingPrefetches'[t] = pendingPrefetches[t]
             /\ MapHas(prefetchAbortControllers', t)
             /\ prefetchAbortControllers'[t] = prefetchAbortControllers[t]]_vars

(***************************************************************************)
(* C13.  In every reachable state a call of cancelAllPrefetches() aborts  *)
(* every prefetch request in flight and leaves the pending map and the    *)
(* abort-controller map empty.                                             *)
(***************************************************************************)
C13_CancelAllAbortsAll ==
    LET s == CancelAllPrefetchesOp(Cur)
    IN  /\ \A r \in InflightPrefetches : s.requests[r].aborted
        /\ s.pendingPrefetches = EmptyMap
        /\ s.prefetchAbortControllers = EmptyMap

(***************************************************************************)
(* C14.  cancelAllPrefetches() leaves the cache (entries, order, handles, *)
(* none revoked), the current playback session, the direct-fetch abort    *)
(* controller and its request, and the generation counter unchanged.      *)
(***************************************************************************)
C14_CancelAllFrame ==
    [][CancelAllPrefetches
       => /\ UNCHANGED <<prefetchCache, prefetchBlobUrls, revoked>>
          /\ UNCHANGED <<currentAudio, currentBlobUrl, currentUtterance,
                         audios, utterances, onEndCalls, onErrorCalls>>
          /\ UNCHANGED <<abortController, speakGen>>
          /\ \A r \in 1..Len(requests) :
                requests[r].kind = "speak" => requests'[r] = requests[r]]_vars

\* A prefetch was aborted in flight while the cache holds the handle that
\* the current element is playing.
C14_Witness ==
    /\ \E r \in InflightPrefetches : requests[r].aborted
    /\ pendingPrefetches = EmptyMap
    /\ prefetchCache # << >>
    /\ currentAudio \in LiveAudios
    /\ currentBlobUrl \in CacheUrls(prefetchCache)
    /\ abortController # 0

(***************************************************************************)
(* C15.  cancelSpeech() and the cleanup at the start of speak() abort the *)
(* direct-fetch request in flight, if any, and leave every prefetch       *)
(* untouched: pending map, prefetch abort controllers and cache are       *)
(* unchanged, no cached handle is revoked and no prefetch request is      *)
(* aborted.                                                                *)
(***************************************************************************)
C15_CancelSpeechFrame ==
    [][(SpeakStep \/ CancelSpeech)
       => /\ (abortController # 0 /\ Inflight(abortController))
             => requests'[abortController].aborted
          /\ UNCHANGED <<pendingPrefetches, prefetchAbortControllers>>
          /\ UNCHANGED <<prefetchCache, prefetchBlobUrls>>
          /\ revoked' \cap CacheUrls(prefetchCache)
                = revoked \cap CacheUrls(prefetchCache)
          /\ \A r \in 1..Len(requests) :
                requests[r].kind = "prefetch" => requests'[r] = requests[r]]_vars

\* A direct fetch was aborted in flight while a prefetch stays registered,
\* in flight and not aborted.
C15_Witness ==
    /\ \E r \in 1..Len(requests) :
          /\ requests[r].kind = "speak"
          /\ requests[r].status = "inflight"
          /\ requests[r].aborted
    /\ \E t \in Texts :
          /\ MapHas(pendingPrefetches, t)
          /\ pendingPrefetches[t] \in InflightPrefetches
          /\ ~requests[pendingPrefetches[t]].aborted
          /\ prefetchAbortControllers[t] = pendingPrefetches[t]

(***************************************************************************)
(* C17.  A failed prefetch is swallowed: its failure settlement leaves    *)
(* the cache as it was, invokes no onEnd or onError, and removes the      *)
(* pending entry and controller of its text; unless the text was cached   *)
(* by another request, a speak(text) called next issues a direct fetch.   *)
(***************************************************************************)
C17_FailedPrefetchSwallowed ==
    [][\A r \in 1..Len(requests) :
          PrefetchSettled(r, FALSE)
          => LET t == requests[r].text
                 s == SpeakOp(Cur', t)
             IN  /\ UNCHANGED <<prefetchCache, prefetchBlobUrls, revoked>>
                 /\ UNCHANGED <<onEndCalls, onErrorCalls>>
                 /\ ~MapHas(pendingPrefetches', t)
                 /\ ~MapHas(prefetchAbortControllers', t)
                 /\ ~CacheHas(prefetchCache, t)
                    => /\ Len(s.requests) = Len(requests') + 1
                       /\ s.requests[Len(s.requests)] =
                             NewRequest(t, "speak", speakGen' + 1)
                       /\ s.abortController = Len(s.requests)]_vars

\* After the prefetch of a text failed, speak() of that text is fetching it
\* directly.
C17_Witness ==
    \E r1, r2 \in 1..Len(requests) :
        /\ r1 < r2
        /\ requests[r1].kind = "prefetch" /\ requests[r1].status = "failed"
        /\ requests[r2].kind = "speak" /\ requests[r2].status = "inflight"
        /\ requests[r2].text = requests[r1].text
        /\ requests[r2].gen = speakGen
        /\ abortController = r2
        /\ prefetchCache = << >>
        /\ pendingPrefetches = EmptyMap
        /\ \A g \in Gens : onEndCalls[g] = 0 /\ onErrorCalls[g] = 0

(***************************************************************************)
(* C18.  speak(text) with non-empty trimmed text takes its audio from the *)
(* cache, else from the pending prefetch, else from a fresh fetch: on a   *)
(* cache hit the cached handle starts playing within the call and nothing *)
(* is requested or awaited; on a pending prefetch the call awaits that    *)
(* request and issues none; only otherwise does it issue one request, its *)
(* own.                                                                    *)
(***************************************************************************)
C18_ResolutionOrder ==
    [][\A raw \in RawTexts :
          (trim(raw) # << >> /\ Speak(raw))
          => LET t == trim(raw)
                 g == speakGen'
             IN  IF CacheHas(prefetchCache, t)
                 THEN /\ NewRequests = {}
                      /\ waiters' = waiters
                      /\ audios'[g] = [state |-> "starting",
                                       url |-> CacheUrl(prefetchCache, t)]
                      /\ currentAudio' = g
                      /\ currentBlobUrl' = CacheUrl(prefetchCache, t)
                 ELSE IF MapHas(pendingPrefetches, t)
                 THEN /\ NewRequests = {}
                      /\ waiters' = waiters \cup
                            {[req |-> pendingPrefetches[t], gen |-> g,
                              text |-> t]}
                      /\ audios'[g].state = "none"
                      /\ utterances'[g].state = "none"
                 ELSE /\ NewRequests = {Len(requests')}
                      /\ requests'[Len(requests')] = NewRequest(t, "speak", g)
                      /\ abortController' = Len(requests')
                      /\ waiters' = waiters
                      /\ audios'[g].state = "none"
                      /\ utterances'[g].state = "none"]_vars

\* speak() of a text that is both cached and pending has started the cached
\* handle, which an earlier call had played.
C18_Witness ==
    \E t \in Texts :
        /\ CacheHas(prefetchCache, t)
        /\ MapHas(pendingPrefetches, t)
        /\ Inflight(pendingPrefetches[t])
        /\ speakGen >= 2
        /\ audios[speakGen] =
              [state |-> "starting", url |-> CacheUrl(prefetchCache, t)]
        /\ audios[speakGen - 1].url = CacheUrl(prefetchCache, t)
        /\ currentAudio = speakGen
        /\ waiters = {}

(***************************************************************************)
(* C19.  When the direct fetch of the current speak(text) call succeeds,  *)
(* its handle is in the cache under the trimmed text and is what the      *)
(* call's element plays; the completion callback of a call that is stale, *)
(* handed a handle, changes neither the cache nor the session.            *)
(***************************************************************************)
C19_DirectFetchSuccess ==
    /\ [][\A r \in 1..Len(requests) :
            (requests[r].gen = speakGen /\ SpeakFetchSettled(r, TRUE))
            => /\ CacheUrl(prefetchCache', requests[r].text) = r
               /\ r \in prefetchBlobUrls'
               /\ r \notin revoked'
               /\ audios'[speakGen] = [state |-> "starting", url |-> r]
               /\ currentAudio' = speakGen
               /\ currentBlobUrl' = r]_vars
    /\ [](\A r \in 1..Len(requests) :
            (/\ Inflight(r)
             /\ requests[r].kind = "speak"
             /\ requests[r].gen # speakGen)
            => SpeakFetchThen(Resolved(Cur, r, TRUE), r, r)
                  = Resolved(Cur, r, TRUE))

\* The handle of the current call's own fetch is cached under its text and
\* its element is starting; an earlier call's fetch is stale and in flight.
C19_Witness ==
    \E r, q \in 1..Len(requests) :
        /\ requests[r].kind = "speak" /\ requests[r].status = "ok"
        /\ CacheUrl(prefetchCache, requests[r].text) = r
        /\ audios[speakGen] = [state |-> "starting", url |-> r]
        /\ currentAudio = speakGen
        /\ currentBlobUrl = r
        /\ Inflight(q)
        /\ requests[q].kind = "speak"
        /\ requests[q].gen < speakGen

(***************************************************************************)
(* Vocabulary of the stagger property.                                     *)
(***************************************************************************)
\* The text is cached or its prefetch is pending.
Known(t) == CacheHas(prefetchCache, t) \/ MapHas(pendingPrefetches, t)
\* Timers the step sets.
NewTimers == SubSeq(timers', Len(timers) + 1, Len(timers'))
\* Position of a text in a list without duplicates.
IndexOf(u, t) == CHOOSE i \in 1..Len(u) : u[i] = t

(***************************************************************************)
(* C16.  Stagger order.  prefetchAllScenes(narrations), with u the        *)
(* trimmed, non-empty, de-duplicated texts in input order: u[1] is        *)
(* requested within the call; every later u[i] is given one timer, of     *)
(* delay 150 ms times its 0-based index, the timers set in input order at *)
(* strictly increasing delays; texts already cached or pending get        *)
(* neither.  A timer that fires issues one prefetch of its text, and      *)
(* nothing if the text has meanwhile become cached or pending.            *)
(***************************************************************************)
C16_StaggerOrder ==
    [][/\ \A narrations \in LongSceneLists :
             PrefetchAllScenesWithin(narrations, MaxReq + 1, MaxTimers + 1)
             => LET u == Unique(narrations, {})
                    timersOf(t) ==
                        {k \in 1..Len(NewTimers) : NewTimers[k].text = t}
                IN  /\ SubSeq(timers', 1, Len(timers)) = timers
                    /\ \A k \in 1..Len(NewTimers) :
                          \E i \in 2..Len(u) : NewTimers[k].text = u[i]
                    /\ \A i \in 1..Len(u) :
                          IF Known(u[i])
                          THEN NewPrefetches(u[i]) = {} /\ timersOf(u[i]) = {}
                          ELSE IF i = 1
                          THEN /\ NewPrefetches(u[1]) = {Len(requests')}
                               /\ pendingPrefetches'[u[1]] = Len(requests')
                               /\ timersOf(u[1]) = {}
                          ELSE /\ NewPrefetches(u[i]) = {}
                               /\ Cardinality(timersOf(u[i])) = 1
                               /\ \A k \in timersOf(u[i]) :
                                     NewTimers[k].delay
                                        = (i - 1) * PREFETCH_STAGGER_MS
                    /\ Cardinality(NewRequests) <= 1
                    /\ \A a, b \in 1..Len(NewTimers) :
                          a < b
                          => /\ NewTimers[a].delay < NewTimers[b].delay
                             /\ IndexOf(u, NewTimers[a].text)
                                   < IndexOf(u, NewTimers[b].text)
       /\ \A k \in 1..Len(timers) :
             TimerFireWithin(k, MaxReq + 1)
             => LET t == timers[k].text
                IN  /\ Len(timers') = Len(timers) - 1
                    /\ IF Known(t)
                       THEN UNCHANGED <<requests, pendingPrefetches,
                                        prefetchAbortControllers>>
                       ELSE /\ NewRequests = {Len(requests')}
                            /\ NewPrefetches(t) = {Len(requests')}
                            /\ pendingPrefetches'[t] = Len(requests')]_vars

\* Three scenes were handed over: the first is being fetched, the other two
\* wait on timers of 150 and 300 ms, and the text of the first timer has
\* meanwhile been cached.
C16_Witness ==
    /\ Len(timers) = 2
    /\ timers[1].delay = PREFETCH_STAGGER_MS
    /\ timers[2].delay = 2 * PREFETCH_STAGGER_MS
    /\ timers[1].text # timers[2].text
    /\ CacheHas(prefetchCache, timers[1].text)
    /\ \E t \in SceneTexts \ {timers[1].text, timers[2].text} :
          MapHas(pendingPrefetches, t) /\ Inflight(pendingPrefetches[t])

(***************************************************************************)
(* C20.  The fallback synthesizer cancels any utterance still speaking    *)
(* before it starts a new one, so the new one is the only one speaking;   *)
(* when an utterance ends its call's onEnd alone is invoked, once; when   *)
(* it fails its call's onError is invoked and then its onEnd, once each.  *)
(***************************************************************************)
C20_FallbackSynthesizer ==
    [][\A g \in Gens :
          /\ g \in StartedUtterances => LiveUtterances' = {g}
          /\ UtteranceEnd(g)
             => /\ onEndCalls' = [onEndCalls EXCEPT ![g] = @ + 1]
                /\ onErrorCalls' = onErrorCalls
                /\ lastCallback'[g] = "onEnd"
          /\ UtteranceError(g)
             => /\ onErrorCalls' = [onErrorCalls EXCEPT ![g] = @ + 1]
                /\ onEndCalls' = [onEndCalls EXCEPT ![g] = @ + 1]
                /\ lastCallback'[g] = "onEnd"]_vars

\* Three calls fell back in turn: the first utterance failed (onError, then
\* onEnd), the second ended (onEnd alone), the third is the only one
\* speaking.
C20_Witness ==
    /\ speakGen = 3
    /\ utterances[1].state = "done"
    /\ onErrorCalls[1] = 1 /\ onEndCalls[1] = 1 /\ lastCallback[1] = "onEnd"
    /\ utterances[2].state = "done"
    /\ onErrorCalls[2] = 0 /\ onEndCalls[2] = 1
    /\ LiveUtterances = {3}


(***************************************************************************)
(* C21.  Every failure path ends in a fallback or a callback.  When the   *)
(* fetch serving the current speak() call settles (its own, or the        *)
(* prefetch it awaits), an element or an utterance of that call exists;   *)
(* every terminal event of an element or utterance invokes a callback of  *)
(* its call; and, elements and synthesizer emitting their terminal        *)
(* events, a call that has an element or utterance is called back unless  *)
(* it is superseded or cancelled.                                          *)
(***************************************************************************)
C21_CallbackEventually ==
    /\ [][\A r \in 1..Len(requests), ok \in BOOLEAN :
            /\ (requests[r].gen = speakGen /\ SpeakFetchSettled(r, ok))
               => ~Silent(speakGen)'
            /\ \A w \in waiters :
                  (w.req = r /\ w.gen = speakGen /\ PrefetchSettled(r, ok))
                  => ~Silent(speakGen)']_vars
    /\ [][\A g \in Gens :
            (\/ PlayRejected(g) \/ AudioEnded(g) \/ AudioError(g)
             \/ UtteranceEnd(g) \/ UtteranceError(g))
            => onEndCalls'[g] + onErrorCalls'[g]
                  > onEndCalls[g] + onErrorCalls[g]]_vars
    /\ \A g \in Gens :
          (speakGen = g /\ ~Silent(g))
              ~> (onEndCalls[g] + onErrorCalls[g] >= 1 \/ speakGen # g)

\* The current call played the handle of a prefetch to the end and was
\* called back.
C21_Witness ==
    \E r \in 1..Len(requests) :
        /\ requests[r].kind = "prefetch" /\ requests[r].status = "ok"
        /\ speakGen \in Gens
        /\ audios[speakGen] = [state |-> "stopped", url |-> r]
        /\ onEndCalls[speakGen] = 1
        /\ onErrorCalls[speakGen] = 0
        /\ \A q \in 1..Len(requests) : requests[q].kind = "prefetch"


(***************************************************************************)
(* C22.  authFetch issues at most two HTTP requests per call.  The second *)
(* is sent only after the first response had status 401 and the refreshed *)
(* token is non-empty and differs from the first token, and it carries    *)
(* the refreshed token.  When getAccessToken() throws or returns nothing, *)
(* or the refreshed token equals the old one, signIn() is called once, no *)
(* request is sent, and the call hangs: a hung call never changes again.  *)
(***************************************************************************)
C22_AtMostOneRetry ==
    [][\A c \in AuthCalls :
          LET old == authCalls[c]
              new == authCalls'[c]
          IN  /\ Len(new.sent) <= 2
              /\ Len(new.sent) <= Len(old.sent) + 1
              /\ (Len(old.sent) = 1 /\ Len(new.sent) = 2)
                 => /\ old.pc = "refresh" /\ old.status = UNAUTHORIZED
                    /\ ~Falsy(new.sent[2])
                    /\ new.sent[2] \in Tokens \ {old.sent[1]}
                    /\ new.sent[2] = new.freshToken
              /\ \A outcome \in TokenOutcomes :
                    (/\ \/ GetAccessTokenSettled(c, outcome)
                        \/ RefreshSettled(c, outcome)
                     /\ \/ outcome = "throws"
                        \/ Falsy(outcome)
                        \/ old.pc = "refresh" /\ outcome = old.token)
                    => /\ new.pc = "hung"
                       /\ new.signIns = old.signIns + 1
                       /\ new.sent = old.sent
              /\ old.pc = "hung" => new = old]_vars

\* One call was answered 401 and retried once with the refreshed token; the
\* other was answered 401, got the same token again and hangs after signIn().
C22_Witness ==
    \E c, d \in AuthCalls :
        /\ authCalls[c].pc = "resolved"
        /\ Len(authCalls[c].sent) = 2
        /\ authCalls[c].sent[1] # authCalls[c].sent[2]
        /\ authCalls[c].status = UNAUTHORIZED
        /\ authCalls[d].pc = "hung"
        /\ Len(authCalls[d].sent) = 1
        /\ authCalls[d].freshToken = authCalls[d].token
        /\ authCalls[d].signIns = 1


\* Direct fetches in flight that nobody aborted.
DirectInflight ==
    {r \in 1..Len(requests) :
        /\ requests[r].kind = "speak"
        /\ requests[r].status = "inflight"
        /\ ~requests[r].aborted}

(***************************************************************************)
(* C23.  At most one direct (speak-issued) fetch is in flight and not     *)
(* aborted: after every speak() and cancelSpeech() each direct fetch that *)
(* was in flight is aborted, the one the call itself issues excepted.     *)
(***************************************************************************)
C23_OneDirectFetch ==
    /\ [](Cardinality(DirectInflight) <= 1)
    /\ [][(SpeakStep \/ CancelSpeech)
          => \A r \in DirectInflight : requests'[r].aborted]_vars

\* Two direct fetches are in flight: the earlier one aborted, the later one,
\* of the current call, not.
C23_Witness ==
    \E r1, r2 \in 1..Len(requests) :
        /\ r1 < r2
        /\ requests[r1].kind = "speak" /\ requests[r1].status = "inflight"
        /\ requests[r1].aborted
        /\ DirectInflight = {r2}
        /\ requests[r2].gen = speakGen

(***************************************************************************)
(* C24.  _currentAudio and _currentUtterance are never both set.  A call  *)
(* (session generation g) goes Idle -> Fetching -> Playing or             *)
(* FallbackPlaying -> Idle: it is given an element or an utterance, never *)
(* both, at most once, while it is the current call, and only its own     *)
(* element or utterance is ever the current one.                          *)
(***************************************************************************)
C24_OneMode ==
    /\ [](~(currentAudio # 0 /\ currentUtterance # 0))
    /\ [](\A g \in Gens :
            ~(audios[g].state # "none" /\ utterances[g].state # "none"))
    /\ [][/\ currentAudio' \notin {0, currentAudio}
             => /\ currentAudio' = speakGen'
                /\ audios[speakGen'].state = "none"
                /\ audios'[speakGen'].state = "starting"
          /\ currentUtterance' \notin {0, currentUtterance}
             => /\ currentUtterance' = speakGen'
                /\ utterances[speakGen'].state = "none"
                /\ utterances'[speakGen'].state = "speaking"]_vars

\* The previous call played backend audio and was cut off; the current call
\* awaited a prefetch that failed and is speaking through the synthesizer.
C24_Witness ==
    /\ speakGen >= 2
    /\ currentUtterance = speakGen
    /\ utterances[speakGen].state = "speaking"
    /\ currentAudio = 0
    /\ audios[speakGen - 1].state = "stopped"
    /\ onEndCalls[speakGen - 1] = 0
    /\ \E r \in 1..Len(requests) :
          requests[r].kind = "prefetch" /\ requests[r].status = "failed"


(***************************************************************************)
(* C25.  In every reachable state the protection set _prefetchBlobUrls is *)
(* exactly the set of handles stored as values in _prefetchCache.         *)
(***************************************************************************)
C25_ProtectedIsCached == prefetchBlobUrls = CacheUrls(prefetchCache)

(***************************************************************************)
(* C26.  No handle that is a value in the cache has been revoked.         *)
(***************************************************************************)
C26_CachedNotRevoked == CacheUrls(prefetchCache) \cap revoked = {}

\* A cached handle was being played when its call was cut off by _cleanup,
\* and it is still live in the cache.
C26_Witness ==
    \E g \in Gens :
        /\ audios[g].state = "stopped"
        /\ onEndCalls[g] = 0 /\ onErrorCalls[g] = 0
        /\ audios[g].url \in CacheUrls(prefetchCache)
        /\ audios[g].url \notin revoked
        /\ g < speakGen

(***************************************************************************)
(* C27.  Every prefetch request that is in flight and not aborted is      *)
(* registered under its text in both _pendingPrefetches and               *)
(* _prefetchAbortControllers, so at most one prefetch request per text is *)
(* in flight and not aborted.                                              *)
(***************************************************************************)
C27_InflightRegistered ==
    /\ \A r \in InflightPrefetches :
          ~requests[r].aborted
          => /\ MapHas(pendingPrefetches, requests[r].text)
             /\ pendingPrefetches[requests[r].text] = r
             /\ MapHas(prefetchAbortControllers, requests[r].text)
             /\ prefetchAbortControllers[requests[r].text] = r
    /\ \A r1, r2 \in InflightPrefetches :
          (/\ ~requests[r1].aborted /\ ~requests[r2].aborted
           /\ requests[r1].text = requests[r2].text)
          => r1 = r2

(***************************************************************************)
(* C28.  In every reachable state cancelAllPrefetches() leaves no         *)
(* staggered item of an earlier prefetchAllScenes call scheduled, so no   *)
(* prefetch request is issued afterwards on behalf of that call.          *)
(***************************************************************************)
C28_CancelAllClearsTimers == CancelAllPrefetchesOp(Cur).timers = << >>

(***************************************************************************)
(* C29.  The onEnd of a speak() call is invoked at most once over the     *)
(* whole run.                                                              *)
(***************************************************************************)
C29_OnEndOnce == \A g \in Gens : onEndCalls[g] <= 1

\* Three calls were each told onEnd once: one with empty text, one whose
\* element ended, one whose fallback utterance failed (onError, then onEnd).
C29_Witness ==
    \E g1, g2, g3 \in Gens :
        /\ Silent(g1) /\ onEndCalls[g1] = 1
        /\ audios[g2].state = "stopped" /\ onEndCalls[g2] = 1
        /\ utterances[g3].state = "done"
        /\ onErrorCalls[g3] = 1 /\ onEndCalls[g3] = 1

\* C30: a call of handleCodeError for the third or a later occurrence in a row
\* of a signature, each less than 20 seconds after the previous one, sends no
\* fix request, appends one 'paused auto-fix' message and leaves isLoading as
\* it is; so only the first two occurrences of a run can send a request; an
\* occurrence that starts a new run and is counted is counted as 1; and no
\* call sends a fix request while isLoading is true.
C30_LoopGuard ==
    [][\A error \in Errors :
          HandleCodeError(error) =>
              LET sig == Slice(error)
                  streak == app'.seen[sig].streak
                  request == app'.fixSent > app.fixSent
              IN  /\ streak >= PAUSE_AT =>
                        /\ ~request
                        /\ app'.paused = app.paused + 1
                        /\ app'.isLoading = app.isLoading
                  /\ streak = 1 /\ app'.fixGuard # app.fixGuard =>
                        app'.fixGuard[sig].count = 1
                  /\ request => ~app.isLoading]_vars

====
